---- MODULE Spec2Model ----
(***************************************************************************)
(* Model of the schema merger of build.rs (merge_schema, resolve_object,   *)
(* replace_ref, insert) and of the Message::from_str parser that           *)
(* extras_generator.rs emits.                                              *)
(*                                                                         *)
(* JSON values (serde_json::Value) are tagged records [t, v].  A string is *)
(* a sequence of tokens: the separators "#" and "/" and the names between  *)
(* them, so that splitting, joining and prefixing are computed and not     *)
(* assumed.  A path (std::path::Path) is the sequence of the segments      *)
(* between its "/" separators, "." and ".." included: two paths are the    *)
(* same string exactly when they are the same sequence.                    *)
(***************************************************************************)
EXTENDS Integers, Sequences, FiniteSets, TLC

VARIABLES
  files,        \* the file system: normalised location -> parsed content, or Absent
  pending,      \* entries of fs::read_dir(root) not yet taken by the for loop
  definitions,  \* merge_schema's definitions table
  visited,      \* merge_schema's visited set (joined path strings)
  status,       \* "running" | "done" | "aborted" (a panic) | "overflow" (the recursion does not return)
  schema,       \* the document written to schema.json, or NoSchema
  stack,        \* the call stack: the calls of merge_schema, resolve_object and replace_ref in progress
  ctl,          \* what happens next: a call of resolve_object, a loop turn, a return
  run,          \* which invocation of main this is
  previous,     \* how the invocation before this one ended
  log,          \* history of the run: files resolved through a $ref, references emitted
  ins_map,      \* insert harness: the table before the call
  ins_parts,    \* insert harness: the path, first segment first
  ins_value,    \* insert harness: the value
  ins_result,   \* insert harness: the table after the call
  ins_pc,
  ro_value,     \* resolve_object harness: the input tree
  ro_result,    \* resolve_object harness: the resolved tree
  ro_pc,
  schemas,      \* generator harness: the variant list (name, id)
  msg_s,        \* generator harness: the input of Message::from_str
  msg_result,   \* generator harness: what from_str returned
  msg_pc

mergeVars ==
  <<files, pending, definitions, visited, status, schema, stack, ctl, run,
    previous, log>>
insVars == <<ins_map, ins_parts, ins_value, ins_result, ins_pc>>
roVars == <<ro_value, ro_result, ro_pc>>
msgVars == <<schemas, msg_s, msg_result, msg_pc>>
vars == <<mergeVars, insVars, roVars, msgVars>>

----------------------------------------------------------------------------
(* serde_json::Value *)

Str(s) == [t |-> "str", v |-> s]
Num(n) == [t |-> "num", v |-> n]
Arr(a) == [t |-> "arr", v |-> a]
Obj(m) == [t |-> "obj", v |-> m]

EmptyMap == [k \in {} |-> Num(0)]

\* HashMap::insert: the entry is added, or replaces the one of the same key
MapInsert(map, key, value) == (key :> value) @@ map

\* HashMap::remove
MapRemove(map, key) == [k \in DOMAIN map \ {key} |-> map[k]] @@ EmptyMap

Reverse(seq) == [i \in 1..Len(seq) |-> seq[Len(seq) + 1 - i]]

----------------------------------------------------------------------------
(* insert: the value is put at the path that `parts` holds reversed; the   *)
(* result is the returned Value and the table as the call leaves it.       *)

RECURSIVE insert_overwrite(_, _, _)
insert_overwrite(parts, value, map) ==
  IF parts = <<>>
  THEN [ret |-> value, map |-> map]
  ELSE LET key == parts[Len(parts)]
           rest == SubSeq(parts, 1, Len(parts) - 1)
           new_value == insert_overwrite(rest, value, EmptyMap).ret
           map2 == MapInsert(MapRemove(map, key), key, new_value)
       IN [ret |-> Obj(map2), map |-> map2]

RECURSIVE insert(_, _, _)
insert(parts, value, map) ==
  IF parts = <<>>
  THEN [ret |-> value, map |-> map]
  ELSE LET key == parts[Len(parts)]
           rest == SubSeq(parts, 1, Len(parts) - 1)
           new_value ==
             IF key \in DOMAIN map
             THEN IF map[key].t = "obj"
                  THEN Obj(insert(rest, value, map[key].v).map)
                  ELSE map[key]
             ELSE insert(rest, value, EmptyMap).ret
           map2 == MapInsert(MapRemove(map, key), key, new_value)
       IN [ret |-> Obj(map2), map |-> map2]

----------------------------------------------------------------------------
(* Reading a nested table by a path of keys. *)

RECURSIVE HasPath(_, _)
HasPath(map, path) ==
  IF path = <<>> THEN TRUE
  ELSE /\ path[1] \in DOMAIN map
       /\ \/ Len(path) = 1
          \/ /\ map[path[1]].t = "obj"
             /\ HasPath(map[path[1]].v, Tail(path))

RECURSIVE GetPath(_, _)
GetPath(map, path) ==
  IF Len(path) = 1 THEN map[path[1]]
  ELSE GetPath(map[path[1]].v, Tail(path))

IsPrefix(p, q) == Len(p) <= Len(q) /\ SubSeq(q, 1, Len(p)) = p

----------------------------------------------------------------------------
(* The insert harness: one call of insert on a table, a path and a value   *)
(* drawn from bounded sets.                                                *)

MaxParts == 3

InsertKeys == {"a", "b", "c"}

InnerMaps == UNION {[K -> {Num(1)}] : K \in SUBSET {"b", "c"}}

InsertEntries == {Num(1)} \cup {Obj(m) : m \in InnerMaps}

InsertTables == UNION {[K -> InsertEntries] : K \in SUBSET InsertKeys}

InsertPaths == UNION {[1..n -> InsertKeys] : n \in 1..MaxParts}

InsertValues == {Num(7), Obj([b |-> Num(7)])}

NoResult == [t |-> "none", v |-> 0]

InsIdle ==
  /\ ins_map = EmptyMap
  /\ ins_parts = <<>>
  /\ ins_value = NoResult
  /\ ins_result = EmptyMap
  /\ ins_pc = "idle"

InsInit ==
  /\ ins_map \in InsertTables
  /\ ins_parts \in InsertPaths
  /\ ins_value \in InsertValues
  /\ ins_result = EmptyMap
  /\ ins_pc = "call"

CallInsert ==
  /\ ins_pc = "call"
  /\ ins_result' = insert(Reverse(ins_parts), ins_value, ins_map).map
  /\ ins_pc' = "done"
  /\ UNCHANGED <<ins_map, ins_parts, ins_value>>

----------------------------------------------------------------------------
(* Strings and paths *)

None == [some |-> FALSE, v |-> <<>>]
Some(x) == [some |-> TRUE, v |-> x]

\* str::split: the pieces of s between the occurrences of sep
RECURSIVE SplitOn(_, _)
SplitOn(s, sep) ==
  IF \A i \in 1..Len(s) : s[i] # sep
  THEN <<s>>
  ELSE LET i == CHOOSE k \in 1..Len(s) :
                  s[k] = sep /\ \A j \in 1..(k - 1) : s[j] # sep
       IN <<SubSeq(s, 1, i - 1)>> \o SplitOn(SubSeq(s, i + 1, Len(s)), sep)

\* the segments of a path string
Segments(tokens) ==
  LET pieces == SplitOn(tokens, "/")
  IN [i \in 1..Len(pieces) |-> IF pieces[i] = <<>> THEN "" ELSE pieces[i][1]]

\* [&str]::join("/")
RECURSIVE JoinSlash(_)
JoinSlash(parts) ==
  IF parts = <<>> THEN <<>>
  ELSE IF Len(parts) = 1 THEN <<parts[1]>>
  ELSE <<parts[1], "/">> \o JoinSlash(Tail(parts))

\* Path::join: an absolute argument replaces the base
PathJoin(base, rel) == IF rel[1] = "" THEN rel ELSE base \o rel

IsComponent(seg) == seg # "." /\ seg # ""

\* Path::components: "." and empty segments are not components
Components(path) == SelectSeq(path, IsComponent)

RECURSIVE TrimDots(_)
TrimDots(path) ==
  IF path # <<>> /\ ~IsComponent(path[Len(path)])
  THEN TrimDots(SubSeq(path, 1, Len(path) - 1))
  ELSE path

\* Path::parent: without the last component, and without what trails it
Parent(path) ==
  LET p == TrimDots(path)
  IN TrimDots(SubSeq(p, 1, Len(p) - 1))

\* Path::strip_prefix compares components
StripPrefix(path, prefix) ==
  LET c == Components(path)
      r == Components(prefix)
  IN IF IsPrefix(r, c)
     THEN [ok |-> TRUE, parts |-> SubSeq(c, Len(r) + 1, Len(c))]
     ELSE [ok |-> FALSE, parts |-> <<>>]

----------------------------------------------------------------------------
(* The file system.  A location is a normalised path from the working      *)
(* directory; the directories are the working directory, the cloned        *)
(* repository and its messages directory.                                  *)

RepoDir == "gateway-addon-ipc-schema"

RootPath == <<RepoDir, "messages">>

Dirs == {<<>>, <<RepoDir>>, RootPath}

NotFound == <<"", "">>

Absent == [t |-> "absent", v |-> 0]

Unparsable == [t |-> "unparsable", v |-> 0]

\* where the operating system ends when it walks a path string
RECURSIVE Walk(_, _)
Walk(segs, at) ==
  IF segs = <<>> THEN at
  ELSE IF at \notin Dirs THEN NotFound
  ELSE IF ~IsComponent(segs[1]) THEN Walk(Tail(segs), at)
  ELSE IF segs[1] = ".."
       THEN IF at = <<>> THEN NotFound
            ELSE Walk(Tail(segs), SubSeq(at, 1, Len(at) - 1))
       ELSE Walk(Tail(segs), Append(at, segs[1]))

Locate(path) == Walk(path, <<>>)

\* fs::read_to_string: the content, or Absent when the read fails
read_to_string(fs, path) ==
  LET at == Locate(path)
  IN IF at \in DOMAIN fs THEN fs[at] ELSE Absent

\* Path::file_stem of the names the model uses: the name without its last extension
FileStem(name) ==
  CASE name = "a.json" -> "a"
    [] name = "definitions.json" -> "definitions"
    [] name = "x.json" -> "x"
    [] OTHER -> name

----------------------------------------------------------------------------
(* The resolver as a machine.  A frame of `stack` is a call in progress:   *)
(*   merge_schema   waiting at resolve_object(...) for a directory entry;  *)
(*   object         resolve_object in its loop over an object's entries;   *)
(*   array          resolve_object in its loop over an array's elements;   *)
(*   replace_ref    waiting at resolve_object(...) for a referenced file.  *)
(* ctl says what runs next: "call" a call of resolve_object on ctl.value   *)
(* with the arguments ctl.ctx, "loop" the next turn of the top frame's     *)
(* loop, "ret" the return of ctl.value to the top frame, "idle" the next   *)
(* turn of merge_schema's loop.  ctx.owner and the log record the run and  *)
(* decide nothing.                                                         *)

MaxDepth == 5

\* the iteration order of serde_json's Map: the keys in byte order
KeyOrder == <<"$ref", "enum", "items", "p", "r", "type">>

IterKeys(map) ==
  LET In(k) == k \in DOMAIN map
  IN SelectSeq(KeyOrder, In)

NoCtx == [root_path |-> <<>>, base_path |-> <<>>, current_file |-> None,
          owner |-> [file |-> <<>>, by_ref |-> FALSE]]

Idle == [op |-> "idle", value |-> NoResult, ctx |-> NoCtx]
Loop == [op |-> "loop", value |-> NoResult, ctx |-> NoCtx]
CallOf(value, ctx) == [op |-> "call", value |-> value, ctx |-> ctx]
Ret(value) == [op |-> "ret", value |-> value, ctx |-> NoCtx]

Top == stack[Len(stack)]
Popped == SubSeq(stack, 1, Len(stack) - 1)
Push(frame) == Append(stack, frame)
SetTop(frame) == [stack EXCEPT ![Len(stack)] = frame]
TopIs(kind) == stack # <<>> /\ Top.kind = kind

RefDepth == Cardinality({i \in 1..Len(stack) : stack[i].kind = "replace_ref"})

EmptyLog == [resolved |-> {}, emitted |-> {}, unread |-> {}]

strip_enum_any_type(new_map) ==
  IF /\ "type" \in DOMAIN new_map
     /\ "enum" \in DOMAIN new_map
     /\ new_map["type"].t = "str"
     /\ new_map["enum"].t = "arr"
  THEN MapRemove(new_map, "enum")
  ELSE new_map

\* the match on (new_map.get("type"), new_map.get("enum"))
strip_enum(new_map) ==
  IF /\ "type" \in DOMAIN new_map
     /\ "enum" \in DOMAIN new_map
     /\ new_map["type"].t = "str"
     /\ new_map["enum"].t = "arr"
     /\ new_map["type"].v \in {<<"integer">>, <<"number">>}
  THEN MapRemove(new_map, "enum")
  ELSE new_map

\* "#/definitions", "/" and the joined parts, then the pointer
canonical_ref(reference_parts, path_option) ==
  <<"#", "/", "definitions">>
    \o (IF Len(reference_parts) > 0
        THEN <<"/">> \o JoinSlash(reference_parts)
        ELSE <<>>)
    \o (IF path_option.some THEN path_option.v ELSE <<>>)

\* resolve_object is entered: an object or an array starts its loop, anything
\* else is returned as it is
ResolveObject ==
  /\ status = "running"
  /\ ctl.op = "call"
  /\ IF ctl.value.t = "obj"
     THEN /\ stack' = Push([kind |-> "object", map |-> ctl.value.v,
                            keys |-> IterKeys(ctl.value.v),
                            new_map |-> EmptyMap, ctx |-> ctl.ctx])
          /\ ctl' = Loop
     ELSE IF ctl.value.t = "arr"
     THEN /\ stack' = Push([kind |-> "array", arr |-> ctl.value.v,
                            new_arr |-> <<>>, ctx |-> ctl.ctx])
          /\ ctl' = Loop
     ELSE /\ stack' = stack
          /\ ctl' = Ret(ctl.value)
  /\ UNCHANGED <<files, pending, definitions, visited, status, schema, run,
                 previous, log>>

\* a turn of the loop over an object's entries, for a key other than "$ref";
\* after the last turn enum is dropped and the object returned
ObjectLoop ==
  /\ status = "running"
  /\ ctl.op = "loop"
  /\ TopIs("object")
  /\ IF Top.keys = <<>>
     THEN /\ stack' = Popped
          /\ ctl' = Ret(Obj(strip_enum(Top.new_map)))
     ELSE /\ Top.keys[1] # "$ref"
          /\ stack' = stack
          /\ ctl' = CallOf(Top.map[Top.keys[1]], Top.ctx)
  /\ UNCHANGED <<files, pending, definitions, visited, status, schema, run,
                 previous, log>>

\* a turn of the loop over an array's elements
ArrayLoop ==
  /\ status = "running"
  /\ ctl.op = "loop"
  /\ TopIs("array")
  /\ IF Top.arr = <<>>
     THEN /\ stack' = Popped
          /\ ctl' = Ret(Arr(Top.new_arr))
     ELSE /\ stack' = stack
          /\ ctl' = CallOf(Top.arr[1], Top.ctx)
  /\ UNCHANGED <<files, pending, definitions, visited, status, schema, run,
                 previous, log>>

\* new_map.insert(k, new_value)
ReturnToObject ==
  /\ status = "running"
  /\ ctl.op = "ret"
  /\ TopIs("object")
  /\ stack' = SetTop([Top EXCEPT
                        !.new_map = MapInsert(@, Top.keys[1], ctl.value),
                        !.keys = Tail(@)])
  /\ ctl' = Loop
  /\ UNCHANGED <<files, pending, definitions, visited, status, schema, run,
                 previous, log>>

\* new_arr.push(new_value)
ReturnToArray ==
  /\ status = "running"
  /\ ctl.op = "ret"
  /\ TopIs("array")
  /\ stack' = SetTop([Top EXCEPT !.new_arr = Append(@, ctl.value),
                                 !.arr = Tail(@)])
  /\ ctl' = Loop
  /\ UNCHANGED <<files, pending, definitions, visited, status, schema, run,
                 previous, log>>

\* what replace_ref computes from its arguments before it touches visited
ref_of(ctx, ref_string) ==
  LET ref_parts == SplitOn(ref_string, "#")
      file_option == IF Len(ref_parts[1]) > 0 THEN Some(ref_parts[1]) ELSE None
      path_option == IF Len(ref_parts) >= 2 THEN Some(ref_parts[2]) ELSE None
      effective == IF file_option.some THEN file_option ELSE ctx.current_file
      relative_file_path == effective.v
      absolute_file_path ==
        IF effective.some
        THEN PathJoin(ctx.base_path, Segments(relative_file_path))
        ELSE <<>>
      reference == StripPrefix(absolute_file_path, ctx.root_path)
  IN [file_option |-> file_option,
      path_option |-> path_option,
      effective |-> effective,
      relative_file_path |-> relative_file_path,
      absolute_file_path |-> absolute_file_path,
      content_string |-> read_to_string(files, absolute_file_path),
      target |-> Locate(absolute_file_path),
      stripped |-> reference.ok,
      reference_parts |-> reference.parts,
      out |-> canonical_ref(reference.parts, path_option)]

Emission(ctx, r) ==
  [from |-> ctx.owner, named |-> r.file_option.some, target |-> r.target,
   parts |-> r.reference_parts, pointer |-> r.path_option, out |-> r.out]

\* replace_ref, called by the loop for the key "$ref", up to its return or to
\* its call of resolve_object on the referenced file
ReplaceRef ==
  /\ status = "running"
  /\ ctl.op = "loop"
  /\ TopIs("object")
  /\ Top.keys # <<>>
  /\ Top.keys[1] = "$ref"
  /\ LET value == Top.map["$ref"]
         ctx == Top.ctx
         r == ref_of(ctx, value.v)
         fresh == r.file_option.some /\ r.absolute_file_path \notin visited
     IN IF value.t # "str" \/ ~r.effective.some
        THEN \* x => x, and a reference with no file to resolve against
             /\ ctl' = Ret(value)
             /\ UNCHANGED <<stack, visited, status, log>>
        ELSE IF r.content_string = Absent \/ ~r.stripped
        THEN \* "Could not read", or strip_prefix(...).unwrap()
             /\ status' = "aborted"
             /\ log' = [log EXCEPT !.unread = @ \cup {Emission(ctx, r)}]
             /\ UNCHANGED <<stack, ctl, visited>>
        ELSE IF ~fresh
        THEN /\ ctl' = Ret(Str(r.out))
             /\ log' = [log EXCEPT !.emitted = @ \cup {Emission(ctx, r)}]
             /\ UNCHANGED <<stack, visited, status>>
        ELSE IF r.content_string = Unparsable
        THEN \* from_str(&content_string).unwrap()
             /\ visited' = visited \cup {r.absolute_file_path}
             /\ status' = "aborted"
             /\ UNCHANGED <<stack, ctl, log>>
        ELSE IF RefDepth >= MaxDepth
        THEN /\ visited' = visited \cup {r.absolute_file_path}
             /\ status' = "overflow"
             /\ UNCHANGED <<stack, ctl, log>>
        ELSE /\ visited' = visited \cup {r.absolute_file_path}
             /\ stack' = Push([kind |-> "replace_ref", ctx |-> ctx,
                               ref |-> r])
             /\ ctl' = CallOf(r.content_string,
                              [root_path |-> ctx.root_path,
                               base_path |-> Parent(r.absolute_file_path),
                               current_file |-> Some(r.relative_file_path),
                               owner |-> [file |-> r.target, by_ref |-> TRUE]])
             /\ UNCHANGED <<status, log>>
  /\ UNCHANGED <<files, pending, definitions, schema, run, previous>>

\* the referenced file is resolved: replace_ref inserts it and returns the
\* canonical string
ReturnToReplaceRef ==
  /\ status = "running"
  /\ ctl.op = "ret"
  /\ TopIs("replace_ref")
  /\ LET r == Top.ref
     IN /\ definitions' =
             insert(Reverse(r.reference_parts), ctl.value, definitions).map
        /\ log' = [log EXCEPT
                     !.resolved = @ \cup
                        {[file |-> r.target, key |-> r.absolute_file_path,
                          from |-> Top.ctx.owner, parts |-> r.reference_parts,
                          value |-> ctl.value]},
                     !.emitted = @ \cup {Emission(Top.ctx, r)}]
        /\ ctl' = Ret(Str(r.out))
  /\ stack' = Popped
  /\ UNCHANGED <<files, pending, visited, status, schema, run, previous>>

----------------------------------------------------------------------------
(* merge_schema *)

NoSchema == [t |-> "none", v |-> 0]

NoOutcome == [completed |-> FALSE, schema |-> NoResult]

InRoot(name) == RootPath \o <<name>>
InRepo(name) == <<RepoDir, name>>

RootNames == {"a", "a.json", "definitions.json"}

\* what fs::read_dir(root) yields
Entries == {name \in RootNames : files[InRoot(name)] # Absent}

\* the document merge_schema writes: {"definitions": definitions}
written(defs) == Obj([definitions |-> Obj(defs)])

\* a turn of the loop over the directory: the entry is read, parsed and handed
\* to resolve_object, unless its stem is "definitions"
TakeEntry(entry) ==
  /\ status = "running"
  /\ ctl.op = "idle"
  /\ entry \in pending
  /\ pending' = pending \ {entry}
  /\ LET path == InRoot(entry)
         file_name == FileStem(entry)
         data == read_to_string(files, path)
         base_path == Parent(path)
     IN IF file_name = "definitions"
        THEN UNCHANGED <<stack, ctl, status>>
        ELSE IF data \in {Absent, Unparsable}
        THEN \* "Could not read", "Could not parse"
             /\ status' = "aborted"
             /\ UNCHANGED <<stack, ctl>>
        ELSE /\ stack' = Push([kind |-> "merge_schema",
                               file_name |-> file_name])
             /\ ctl' = CallOf(data,
                              [root_path |-> base_path,
                               base_path |-> base_path,
                               current_file |-> None,
                               owner |-> [file |-> Locate(path),
                                          by_ref |-> FALSE]])
             /\ UNCHANGED status
  /\ UNCHANGED <<files, definitions, visited, schema, run, previous, log>>

\* definitions.insert(String::from(file_name), value)
ReturnToMergeSchema ==
  /\ status = "running"
  /\ ctl.op = "ret"
  /\ TopIs("merge_schema")
  /\ definitions' = MapInsert(definitions, Top.file_name, ctl.value)
  /\ stack' = Popped
  /\ ctl' = Idle
  /\ UNCHANGED <<files, pending, visited, status, schema, run, previous, log>>

\* after the loop: schema.json is written
WriteSchema ==
  /\ status = "running"
  /\ ctl.op = "idle"
  /\ pending = {}
  /\ schema' = written(definitions)
  /\ status' = "done"
  /\ UNCHANGED <<files, pending, definitions, visited, stack, ctl, run,
                 previous, log>>

\* main is invoked again on the same files: the table and the visited set
\* are new
Rerun ==
  /\ run = 1
  /\ status \in {"done", "aborted", "overflow"}
  /\ previous' = [completed |-> status = "done", schema |-> schema]
  /\ run' = 2
  /\ pending' = Entries
  /\ definitions' = EmptyMap
  /\ visited' = {}
  /\ status' = "running"
  /\ schema' = NoSchema
  /\ stack' = <<>>
  /\ ctl' = Idle
  /\ log' = EmptyLog
  /\ UNCHANGED files

----------------------------------------------------------------------------
(* The schema files of a run: three in the messages directory, one beside  *)
(* it in the repository.  A file holds a schema under "p" and at most one  *)
(* $ref under "r".                                                         *)

Leaf == Obj([type |-> Str(<<"integer">>), enum |-> Arr(<<Num(1)>>)])

Plain == Obj([p |-> Leaf])

WithRef(ref) == Obj([p |-> Leaf, r |-> Obj("$ref" :> Str(ref))])

Ptr == <<"#", "/", "p">>

ContentsAJson ==
  {Plain} \cup
  {WithRef(ref) : ref \in
     {Ptr, <<"a.json">> \o Ptr, <<"definitions.json">> \o Ptr, <<"a">> \o Ptr,
      <<"..", "/", "x.json">>,
      <<"..", "/", "messages", "/", "a.json">> \o Ptr}}

ContentsA ==
  {Absent, Unparsable, Plain} \cup
  {WithRef(ref) : ref \in
     {Ptr, <<"definitions.json">> \o Ptr,
      <<".", "/", "definitions.json">> \o Ptr,
      <<"..", "/", "messages", "/", "definitions.json">>, <<"a.json">>}}

ContentsDefinitions == {Absent, Plain, WithRef(Ptr)}

ContentsX == {Absent, WithRef(Ptr), WithRef(<<"x.json">> \o Ptr)}

MergeIdle ==
  /\ files = [loc \in {InRoot(n) : n \in RootNames} \cup {InRepo("x.json")}
                |-> Absent]
  /\ pending = {}
  /\ definitions = EmptyMap
  /\ visited = {}
  /\ schema = NoSchema
  /\ run = 1
  /\ previous = NoOutcome
  /\ log = EmptyLog

MergeInit ==
  /\ \E aj \in ContentsAJson, a \in ContentsA, d \in ContentsDefinitions,
        x \in ContentsX :
        files = (InRoot("a.json") :> aj) @@ (InRoot("a") :> a)
                  @@ (InRoot("definitions.json") :> d)
                  @@ (InRepo("x.json") :> x)
  /\ pending = Entries
  /\ definitions = EmptyMap
  /\ visited = {}
  /\ status = "running"
  /\ schema = NoSchema
  /\ stack = <<>>
  /\ ctl = Idle
  /\ run = 1
  /\ previous = NoOutcome
  /\ log = EmptyLog

RoIdle == ro_value = NoResult /\ ro_result = NoResult /\ ro_pc = "idle"

MsgIdle ==
  /\ schemas = <<>>
  /\ msg_s = NoResult
  /\ msg_result = NoResult
  /\ msg_pc = "idle"

Others == UNCHANGED <<insVars, roVars, msgVars>>

Init == MergeInit /\ InsIdle /\ RoIdle /\ MsgIdle

Next ==
  \/ \E entry \in pending : TakeEntry(entry) /\ Others
  \/ ResolveObject /\ Others
  \/ ObjectLoop /\ Others
  \/ ArrayLoop /\ Others
  \/ ReplaceRef /\ Others
  \/ ReturnToObject /\ Others
  \/ ReturnToArray /\ Others
  \/ ReturnToReplaceRef /\ Others
  \/ ReturnToMergeSchema /\ Others
  \/ WriteSchema /\ Others
  \/ Rerun /\ Others

Spec == Init /\ [][Next]_vars

MachineIdle == MergeIdle /\ status = "idle" /\ stack = <<>> /\ ctl = Idle

InsertInit == InsInit /\ MachineIdle /\ RoIdle /\ MsgIdle

InsertNext == CallInsert /\ UNCHANGED <<mergeVars, roVars, msgVars>>

SpecInsert == InsertInit /\ [][InsertNext]_vars

----------------------------------------------------------------------------
(* What the claims about a run of merge_schema speak of. *)

ExistingLocs == {loc \in DOMAIN files : files[loc] \notin {Absent}}

\* the path of a file relative to the schema root
RelToRoot(loc) ==
  IF IsPrefix(RootPath, loc)
  THEN SubSeq(loc, Len(RootPath) + 1, Len(loc))
  ELSE <<"..">> \o SubSeq(loc, Len(RootPath), Len(loc))

\* the strings stored under a "$ref" key anywhere in a value
RECURSIVE Refs(_)
Refs(value) ==
  IF value.t = "obj"
  THEN UNION {IF k = "$ref" /\ value.v[k].t = "str"
              THEN {value.v[k].v}
              ELSE Refs(value.v[k]) : k \in DOMAIN value.v}
  ELSE IF value.t = "arr"
  THEN UNION {Refs(value.v[i]) : i \in DOMAIN value.v}
  ELSE {}

Pointers == {<<>>, <<"/", "p">>}

\* "#/definitions/<path>" and a pointer, where <path>, walked from the schema
\* root, ends at a schema file
IsCanonicalRef(s) ==
  /\ Len(s) > 4
  /\ SubSeq(s, 1, 4) = <<"#", "/", "definitions", "/">>
  /\ \E n \in 5..Len(s) :
        /\ SubSeq(s, n + 1, Len(s)) \in Pointers
        /\ Locate(RootPath \o Segments(SubSeq(s, 5, n))) \in ExistingLocs

Finished == status \in {"done", "aborted", "overflow"}

ResolutionsOf(loc) == {x \in log.resolved : x.file = loc}

\* C1: when two $ref strings in different files name the same target file,
\* the target is resolved and inserted exactly once in the run and, for equal
\* pointers, both references get the identical canonical string.
C1_DiamondOnce ==
  status = "done" =>
    \A e1 \in log.emitted, e2 \in log.emitted :
      (/\ e1.named
       /\ e2.named
       /\ e1.from.file # e2.from.file
       /\ e1.target = e2.target)
      => /\ Cardinality(ResolutionsOf(e1.target)) = 1
         /\ (e1.pointer = e2.pointer => e1.out = e2.out)

\* C2: merge_schema terminates whatever the $ref strings are: the nesting of
\* replace_ref calls never exceeds the number of files, so the recursion
\* returns.
C2_Terminates == status # "overflow"

\* C3: every "$ref" value of the written document is a canonical reference
\* "#/definitions/<path relative to the schema root>[<pointer>]".
C3_AllCanonical ==
  status = "done" => \A s \in Refs(schema) : IsCanonicalRef(s)

\* C4: a second invocation on the same files, whatever the order in which
\* the directory is enumerated, ends as the first did: the same document, or
\* an abort both times.
C4_OrderIndependent ==
  (run = 2 /\ Finished) =>
    [completed |-> status = "done", schema |-> schema] = previous

\* C5: inside a file F resolved through a $ref, a reference to F itself
\* (naming F or of the form "#<pointer>") is rewritten to
\* "#/definitions/<F's path relative to the schema root><pointer>".
C5_SelfReference ==
  \A e \in log.emitted \cup log.unread :
    (e.from.by_ref /\ (~e.named \/ e.target = e.from.file))
    => /\ e \notin log.unread
       /\ e.out = canonical_ref(RelToRoot(e.from.file), e.pointer)

\* C10: when merge_schema completes, for every canonical reference emitted
\* for a named file the definitions table holds, at the reference's key
\* path, the resolved content of that file.
C10_ReferentialIntegrity ==
  status = "done" =>
    \A e \in log.emitted :
      e.named =>
        /\ HasPath(definitions, e.parts)
        /\ GetPath(definitions, e.parts)
             \in {x.value : x \in ResolutionsOf(e.target)}

----------------------------------------------------------------------------
(* The resolve_object harness: one call of resolve_object, as merge_schema *)
(* makes it for a directory entry, on a tree drawn from a bounded set.     *)

WithOpt(map, key, value) ==
  IF value = NoResult THEN map ELSE MapInsert(map, key, value)

RoTypes ==
  {Str(<<"integer">>), Str(<<"number">>), Str(<<"string">>), Num(1), NoResult}

RoEnums == {Arr(<<Num(1)>>), Str(<<"x">>), NoResult}

RoLeaves ==
  {Obj(WithOpt(WithOpt(EmptyMap, "type", t), "enum", e)) :
     t \in RoTypes, e \in RoEnums}

RoItems == RoLeaves \cup {Arr(<<l>>) : l \in RoLeaves} \cup {NoResult}

RoRefs == {Str(Ptr), Num(1), NoResult}

RoTrees ==
  {Obj(WithOpt(WithOpt(l.v, "items", i), "$ref", r)) :
     l \in RoLeaves, i \in RoItems, r \in RoRefs}

RoCtx == [root_path |-> RootPath, base_path |-> RootPath,
          current_file |-> None,
          owner |-> [file |-> InRoot("a.json"), by_ref |-> FALSE]]

ResolveInit ==
  /\ MergeIdle
  /\ InsIdle
  /\ MsgIdle
  /\ ro_value \in RoTrees
  /\ ro_result = NoResult
  /\ ro_pc = "call"
  /\ status = "running"
  /\ stack = <<>>
  /\ ctl = CallOf(ro_value, RoCtx)

\* the outermost call returns
RoReturn ==
  /\ ro_pc = "call"
  /\ ctl.op = "ret"
  /\ stack = <<>>
  /\ ro_result' = ctl.value
  /\ ro_pc' = "done"
  /\ ctl' = Idle
  /\ status' = "idle"
  /\ UNCHANGED <<files, pending, definitions, visited, schema, stack, run,
                 previous, log, ro_value, insVars, msgVars>>

ResolveNext ==
  \/ ResolveObject /\ Others
  \/ ObjectLoop /\ Others
  \/ ArrayLoop /\ Others
  \/ ReplaceRef /\ Others
  \/ ReturnToObject /\ Others
  \/ ReturnToArray /\ Others
  \/ RoReturn

SpecResolve == ResolveInit /\ [][ResolveNext]_vars

\* an object that has "type" equal to the string "integer" or "number" and an
\* array under "enum"
NumericEnum(map) ==
  /\ "type" \in DOMAIN map
  /\ "enum" \in DOMAIN map
  /\ map["type"] \in {Str(<<"integer">>), Str(<<"number">>)}
  /\ map["enum"].t = "arr"

\* out is in with "enum" dropped from the numeric-enum objects and from no
\* other, at every depth; a "$ref" value with no file to resolve is kept
RECURSIVE EnumRel(_, _)
EnumRel(in, out) ==
  IF in.t = "obj"
  THEN /\ out.t = "obj"
       /\ DOMAIN out.v = IF NumericEnum(in.v)
                         THEN DOMAIN in.v \ {"enum"}
                         ELSE DOMAIN in.v
       /\ \A k \in DOMAIN out.v :
             IF k = "$ref" THEN out.v[k] = in.v[k]
             ELSE EnumRel(in.v[k], out.v[k])
  ELSE IF in.t = "arr"
  THEN /\ out.t = "arr"
       /\ Len(out.v) = Len(in.v)
       /\ \A i \in 1..Len(in.v) : EnumRel(in.v[i], out.v[i])
  ELSE out = in

\* C8: resolve_object drops "enum" exactly from the objects whose "type" is
\* the string "integer" or "number" and whose "enum" is an array, and keeps
\* every other key, at every depth of the tree.
C8_EnumStripping == ro_pc = "done" => EnumRel(ro_value, ro_result)

C8_Witness ==
  /\ ro_pc = "done"
  /\ "items" \in DOMAIN ro_value.v
  /\ ro_value.v["items"].t = "arr"
  /\ NumericEnum(ro_value.v["items"].v[1].v)
  /\ "enum" \notin DOMAIN ro_result.v["items"].v[1].v
  /\ "type" \in DOMAIN ro_value.v
  /\ ro_value.v["type"] = Str(<<"string">>)
  /\ "enum" \in DOMAIN ro_value.v
  /\ ro_value.v["enum"].t = "arr"
  /\ "enum" \in DOMAIN ro_result.v

----------------------------------------------------------------------------
(* Claims about insert. *)

TablePaths(map) ==
  {q \in UNION {[1..n -> InsertKeys] : n \in 1..MaxParts} : HasPath(map, q)}

\* C7: after insert(path, value, table) every entry of the table that is not
\* on the inserted path is still there with the value it had.
C7_SiblingsKept ==
  ins_pc = "done" =>
    \A q \in TablePaths(ins_map) :
      ~IsPrefix(q, ins_parts) =>
        /\ HasPath(ins_result, q)
        /\ GetPath(ins_result, q) = GetPath(ins_map, q)

C7_Witness ==
  /\ ins_pc = "done"
  /\ ins_parts = <<"a", "b">>
  /\ ins_map = [a |-> Obj([c |-> Num(1)])]
  /\ GetPath(ins_result, <<"a", "c">>) = Num(1)
  /\ GetPath(ins_result, <<"a", "b">>) = ins_value

\* C9: after insert(path, value, table) the table holds value at path, also
\* when a value was already there.
C9_StoredAtPath ==
  ins_pc = "done" =>
    /\ HasPath(ins_result, ins_parts)
    /\ GetPath(ins_result, ins_parts) = ins_value

----------------------------------------------------------------------------
(* The parser that generate_extras emits: Message::from_str.  A variant is *)
(* a MessageSchema, here the stem of its file and the const of its         *)
(* messageType; an input is what serde_json makes of the text: whether it  *)
(* decodes as GenericMessage, its messageType, and the variants whose      *)
(* record it decodes as.                                                   *)

MaxVariants == 2

Stems == {"foo", "bar", "baz"}

Codes == {1, 2, 3}

\* to_case(Case::Pascal) of the stems
Pascal(stem) ==
  CASE stem = "foo" -> "Foo"
    [] stem = "bar" -> "Bar"
    [] stem = "baz" -> "Baz"

\* MessageSchema::name
name(m) == Pascal(m.stem)

\* MessageSchema::id
id(m) == m.const

Ok(variant) == [ok |-> TRUE, variant |-> variant, message |-> <<>>]
Err(message) == [ok |-> FALSE, variant |-> "", message |-> message]

DecodeError == "e"

match_arm_envelope_prefix(s, m) ==
  IF name(m) \in s.payload
  THEN Ok(name(m))
  ELSE Err(<<"Invalid message: ", DecodeError>>)

\* the arm emitted for a variant: Ok(Message::{name}(from_str(s)?))
match_arm(s, m) ==
  IF name(m) \in s.payload
  THEN Ok(name(m))
  ELSE Err(<<"Invalid JSON: ", DecodeError>>)

\* match code { arms in the order of the list, _ => Err(...) }
RECURSIVE match_code(_, _, _)
match_code(code, s, arms) ==
  IF arms = <<>> THEN Err(<<"Unknown message type">>)
  ELSE IF id(arms[1]) = code THEN match_arm(s, arms[1])
  ELSE match_code(code, s, Tail(arms))

from_str(s, list) ==
  IF ~s.envelope
  THEN Err(<<"Invalid message: ", DecodeError>>)
  ELSE match_code(s.message_type, s, list)

VariantLists ==
  {l \in UNION {[1..n -> [stem : Stems, const : Codes \ {3}]] :
                  n \in 0..MaxVariants} :
     \A i \in DOMAIN l, j \in DOMAIN l : l[i].stem = l[j].stem => i = j}

MessageInputs ==
  [envelope : BOOLEAN, message_type : Codes, payload : SUBSET {"Foo", "Bar", "Baz"}]

MessageInit ==
  /\ MachineIdle
  /\ InsIdle
  /\ RoIdle
  /\ schemas \in VariantLists
  /\ msg_s \in MessageInputs
  /\ msg_result = NoResult
  /\ msg_pc = "call"

CallFromStr ==
  /\ msg_pc = "call"
  /\ msg_result' = from_str(msg_s, schemas)
  /\ msg_pc' = "done"
  /\ UNCHANGED <<schemas, msg_s, mergeVars, insVars, roVars>>

SpecMessage == MessageInit /\ [][CallFromStr]_vars

Distinct(list) ==
  \A i \in DOMAIN list, j \in DOMAIN list : id(list[i]) = id(list[j]) => i = j

ThreeWay ==
  /\ \A i \in DOMAIN schemas :
        (/\ msg_s.envelope
         /\ msg_s.message_type = id(schemas[i])
         /\ name(schemas[i]) \in msg_s.payload)
        => msg_result = Ok(name(schemas[i]))
  /\ (/\ msg_s.envelope
      /\ \A i \in DOMAIN schemas : msg_s.message_type # id(schemas[i]))
     => msg_result = Err(<<"Unknown message type">>)
  /\ \A i \in DOMAIN schemas :
        (/\ msg_s.envelope
         /\ msg_s.message_type = id(schemas[i])
         /\ name(schemas[i]) \notin msg_s.payload)
        => /\ ~msg_result.ok
           /\ msg_result.message[1] = "Invalid JSON: "
           /\ msg_result.message # from_str([msg_s EXCEPT !.envelope = FALSE],
                                            schemas).message

\* C6, as amended: for a variant list whose discriminants are pairwise
\* distinct, from_str yields the V case when messageType is V's discriminant
\* and the payload decodes as V, "Unknown message type" when messageType is
\* no variant's discriminant, and an "Invalid JSON: ..." error, worded
\* unlike the envelope error, when the payload does not decode as V.
C6_Dispatch == (msg_pc = "done" /\ Distinct(schemas)) => ThreeWay

C6_Witness ==
  /\ msg_pc = "done"
  /\ Distinct(schemas)
  /\ Len(schemas) = 2
  /\ msg_s.envelope
  /\ msg_s.message_type = id(schemas[2])
  /\ name(schemas[2]) \in msg_s.payload
  /\ name(schemas[1]) \in msg_s.payload
  /\ msg_result = Ok(name(schemas[2]))

\* C6 as stated: the same for any variant list.
C6_AnyVariantList == msg_pc = "done" => ThreeWay

====
